---- MODULE Spec2Model ----
(***************************************************************************)
(* russh: concurrent multi-host ssh command dispatcher.                    *)
(*                                                                         *)
(* Two programs of the repository are modelled.                            *)
(*   Spec       the batch dispatcher of src/src/main.rs: main() expands    *)
(*              servers x commands, starts one thread per pair, each       *)
(*              thread runs run_ssh_command and pushes its ServerResult    *)
(*              into an Arc<Mutex<Vec<_>>>; main joins every handle,       *)
(*              locks, sorts by server and writes the report.              *)
(*   SpecStream the streaming executor of src/src/ssh/mod.rs:              *)
(*              run_ssh_command spawns ssh, two reader threads send one    *)
(*              ServerResult per line on an mpsc channel, the executor     *)
(*              joins both, waits for the child and sends a final result.  *)
(***************************************************************************)
EXTENDS Integers, Sequences, FiniteSets, TLC

VARIABLES
    \* ---- batch dispatcher (src/src/main.rs) ----
    servers,    \* config.servers: Vec<String>
    commands,   \* commands: Vec<String>
    outcome,    \* per task: what Command::output() yields (environment)
    mpc,        \* main thread position
    li,         \* handles.len(): number of threads spawned so far
    ji,         \* number of handles joined so far
    wpc,        \* per worker thread position
    wres,       \* per worker: the local `result` of the closure
    locked,     \* the Mutex around the result vector is held
    results,    \* the Vec<ServerResult> inside the Mutex
    arrival,    \* history: the results in the order they were pushed
    log,        \* the lines written to stdout / output.log
    \* ---- streaming executor (src/src/ssh/mod.rs) ----
    stask,      \* the (server, command) the executor was called with
    senv,       \* what the environment does to this run (spawn, streams, wait)
    epc,        \* executor thread position
    rpc,        \* reader thread positions: [out, err]
    rpos,       \* lines consumed so far by each reader: [out, err]
    chan,       \* everything sent on tx, in send order
    rxAlive,    \* the Receiver has not been dropped
    \* ---- a second call of the streaming executor on a clone of tx ----
    ptask,      \* the (server, command) of the second call
    psent       \* lines the second call has sent so far

dvars == <<servers, commands, outcome, mpc, li, ji, wpc, wres, locked,
           results, arrival, log>>
svars == <<stask, senv, epc, rpc, rpos, chan, rxAlive>>
pvars == <<ptask, psent>>
vars == <<servers, commands, outcome, mpc, li, ji, wpc, wres, locked,
          results, arrival, log, stask, senv, epc, rpc, rpos, chan, rxAlive,
          ptask, psent>>

\* ------------------------------------------------------------------ bounds
MaxServers == 2     \* config.servers.len() is at most this
MaxCommands == 2    \* commands.len() is at most this
MaxTasks == 4       \* servers.len() * commands.len() is at most this
MaxFailures == 1    \* at most this many tasks have a failing outcome
MaxLines == 2       \* lines a subprocess writes to one of its pipes

\* ------------------------------------------------------------------ values
\* Strings the code orders (server names) are sequences of bytes, so that
\* String::cmp can be computed; all other strings are opaque.
ServerNames == { <<97>>, <<97, 98>>, <<98>> }      \* "a", "ab", "b"
CommandNames == { "x", "y" }

\* Option<String>
None == << >>
Some(s) == << s >>

SeqsUpTo(S, n) == UNION { [1..k -> S] : k \in 0..n }

\* HashMap<String, String> of the configuration: a server may have no entry.
ssh_options == [ s \in { <<97>> } |-> "-p 22" ]
users == [ s \in { <<97>>, <<98>> } |-> "root" ]

\* A missing entry resolves to a placeholder instead of the empty string.
GetOrPlaceholder(map, key) == IF key \in DOMAIN map THEN map[key] ELSE "<unset>"

\* HashMap::get(server).unwrap_or(&default), default = String::new()
GetOrDefault(map, key) == IF key \in DOMAIN map THEN map[key] ELSE ""

\* ------------------------------------------------------ task expansion
\* for server in &config.servers { for command in &commands { spawn } }
NumTasks(ss, cs) == Len(ss) * Len(cs)

TaskAt(ss, cs, k) ==
    LET s == ss[((k - 1) \div Len(cs)) + 1]
        c == cs[((k - 1) % Len(cs)) + 1]
    IN  [ server |-> s,
          user |-> GetOrDefault(users, s),
          command |-> c,
          ssh_options |-> GetOrDefault(ssh_options, s) ]

N == NumTasks(servers, commands)
Task(k) == TaskAt(servers, commands, k)

\* ------------------------------------------------ the subprocess (environment)
\* Command::new("ssh").args(..).output(): Err(e) when ssh cannot be started,
\* otherwise the exit status with the captured stdout and stderr.
OutcomeKinds == { "exit0", "spawn_err", "exit1", "exit1_quiet" }
Failing(o) == o # "exit0"

SpawnFailed(o) == o = "spawn_err"
SpawnMessage == "No such file or directory (os error 2)"
ExitSuccess(o) == o = "exit0"
\* the remote command echoes its own text on success
Stdout(task, o) ==
    CASE o = "exit0" -> task.command
      [] o = "exit1" -> ""
      [] o = "exit1_quiet" -> "partial"
      [] OTHER -> ""
Stderr(task, o) ==
    CASE o = "exit1" -> "boom"
      [] OTHER -> ""

\* ------------------------------------------------ run_ssh_command (main.rs)
\* The value a worker's call produces: a ServerResult, or a panic unwinding
\* out of the call.  `id` is a ghost field (the task index); the program's
\* ServerResult has no such field and nothing below reads it except the
\* properties.
Returned(r) == [ panicked |-> FALSE, value |-> r ]
Panicked == [ panicked |-> TRUE,
              value |-> [ id |-> 0, server |-> << >>, output |-> "",
                          error |-> None ] ]

run_ssh_command_panics(k, task, o) ==
    IF SpawnFailed(o)
    THEN Panicked
    ELSE Returned([ id |-> k, server |-> task.server,
                    output |-> Stdout(task, o),
                    error |-> IF ExitSuccess(o) THEN None
                              ELSE Some(Stderr(task, o)) ])

run_ssh_command(k, task, o) ==
    IF SpawnFailed(o)
    THEN Returned([ id |-> k, server |-> task.server, output |-> "",
                    error |-> Some(SpawnMessage) ])
    ELSE Returned([ id |-> k, server |-> task.server,
                    output |-> Stdout(task, o),
                    error |-> IF ExitSuccess(o) THEN None
                              ELSE Some(Stderr(task, o)) ])

NoResult == [ id |-> 0, server |-> << >>, output |-> "", error |-> None ]

\* ------------------------------------------------------------- the sort
\* String::cmp: lexicographic on bytes, a proper prefix is smaller.
RECURSIVE StrLess(_, _)
StrLess(a, b) ==
    IF b = << >> THEN FALSE
    ELSE IF a = << >> THEN TRUE
    ELSE IF Head(a) < Head(b) THEN TRUE
    ELSE IF Head(a) > Head(b) THEN FALSE
    ELSE StrLess(Tail(a), Tail(b))

\* a.server.cmp(&b.server) == Ordering::Greater
CmpGreater(a, b) == StrLess(b.server, a.server)

\* Insert r into the sorted sequence s after every element that is not
\* greater than it (stable).
RECURSIVE InsertStable(_, _)
InsertStable(s, r) ==
    IF s = << >> THEN << r >>
    ELSE IF CmpGreater(s[Len(s)], r)
         THEN Append(InsertStable(SubSeq(s, 1, Len(s) - 1), r), s[Len(s)])
         ELSE Append(s, r)

\* An unstable variant: r also moves in front of elements equal to it.
RECURSIVE InsertUnstable(_, _)
InsertUnstable(s, r) ==
    IF s = << >> THEN << r >>
    ELSE IF ~ CmpGreater(r, s[Len(s)])
         THEN Append(InsertUnstable(SubSeq(s, 1, Len(s) - 1), r), s[Len(s)])
         ELSE Append(s, r)

RECURSIVE SortPrefixUnstable(_, _)
SortPrefixUnstable(s, n) ==
    IF n = 0 THEN << >>
    ELSE InsertUnstable(SortPrefixUnstable(s, n - 1), s[n])

sort_by_unstable(s) == SortPrefixUnstable(s, Len(s))
sort_by_skipped(s) == s

\* the first n elements of s, sorted
RECURSIVE SortPrefix(_, _)
SortPrefix(s, n) ==
    IF n = 0 THEN << >>
    ELSE InsertStable(SortPrefix(s, n - 1), s[n])

\* results.sort_by(|a, b| a.server.cmp(&b.server)): slice::sort_by, stable
sort_by(s) == SortPrefix(s, Len(s))

\* ------------------------------------------------------------ the report
\* for result in results.iter() { if let Some(error) = &result.error {..} }
ReportLine(r) ==
    IF r.error # None
    THEN [ kind |-> "Error", server |-> r.server, text |-> r.error[1] ]
    ELSE [ kind |-> "Output", server |-> r.server, text |-> r.output ]

\* ====================================================== batch dispatcher
\* main's position once k of the N threads have been spawned / joined
AfterSpawn(k) == IF k = N THEN "join" ELSE "launch"
AfterJoin(k) == IF k = N THEN "lock" ELSE "join"

Init ==
    /\ servers \in SeqsUpTo(ServerNames, MaxServers)
    /\ commands \in SeqsUpTo(CommandNames, MaxCommands) \ { << >> }
    /\ NumTasks(servers, commands) <= MaxTasks
    /\ outcome \in [ 1..NumTasks(servers, commands) -> OutcomeKinds ]
    /\ Cardinality({ k \in DOMAIN outcome : Failing(outcome[k]) }) <= MaxFailures
    /\ mpc = IF NumTasks(servers, commands) = 0 THEN "lock" ELSE "launch"
    /\ li = 0
    /\ ji = 0
    /\ wpc = [ k \in 1..NumTasks(servers, commands) |-> "idle" ]
    /\ wres = [ k \in 1..NumTasks(servers, commands) |-> NoResult ]
    /\ locked = FALSE
    /\ results = << >>
    /\ arrival = << >>
    /\ log = << >>
    /\ stask = [ server |-> << >>, command |-> "" ]
    /\ senv = [ spawn |-> FALSE, out |-> << >>, err |-> << >>,
                wait |-> "none" ]
    /\ epc = "off"
    /\ rpc = [ out |-> "off", err |-> "off" ]
    /\ rpos = [ out |-> 0, err |-> 0 ]
    /\ chan = << >>
    /\ rxAlive = FALSE
    /\ ptask = [ server |-> << >>, command |-> "" ]
    /\ psent = 0

\* A thread is spawned only when the thread spawned before it has ended.
MainSpawnSerial ==
    /\ mpc = "launch"
    /\ li < N
    /\ IF li = 0 THEN TRUE ELSE wpc[li] = "done"
    /\ wpc' = [ wpc EXCEPT ![li + 1] = "exec" ]
    /\ li' = li + 1
    /\ mpc' = AfterSpawn(li + 1)
    /\ UNCHANGED <<servers, commands, outcome, ji, wres, locked, results,
                   arrival, log>>
    /\ UNCHANGED svars
    /\ UNCHANGED pvars

\* let handle = thread::spawn(move || {..}); handles.push(handle);
MainSpawn ==
    /\ mpc = "launch"
    /\ li < N
    /\ wpc' = [ wpc EXCEPT ![li + 1] = "exec" ]
    /\ li' = li + 1
    /\ mpc' = AfterSpawn(li + 1)
    /\ UNCHANGED <<servers, commands, outcome, ji, wres, locked, results,
                   arrival, log>>
    /\ UNCHANGED svars
    /\ UNCHANGED pvars

\* The join of a handle whose thread has not yet ended is assumed to return.
MainJoinNoWait ==
    /\ mpc = "join"
    /\ ji < N
    /\ ji' = ji + 1
    /\ mpc' = AfterJoin(ji + 1)
    /\ UNCHANGED <<servers, commands, outcome, li, wpc, wres, locked,
                   results, arrival, log>>
    /\ UNCHANGED svars
    /\ UNCHANGED pvars

\* for handle in handles { handle.join().unwrap(); }
\* join blocks until the thread has ended; Err (the thread panicked) makes
\* unwrap panic in main.
MainJoin ==
    /\ mpc = "join"
    /\ ji < N
    /\ wpc[ji + 1] \in { "done", "panicked" }
    /\ IF wpc[ji + 1] = "panicked"
       THEN /\ mpc' = "panicked"
            /\ ji' = ji
       ELSE /\ ji' = ji + 1
            /\ mpc' = AfterJoin(ji + 1)
    /\ UNCHANGED <<servers, commands, outcome, li, wpc, wres, locked,
                   results, arrival, log>>
    /\ UNCHANGED svars
    /\ UNCHANGED pvars

\* let mut results = results.lock().unwrap();
\* (no thread panics while holding the guard, so the mutex is never poisoned)
MainLock ==
    /\ mpc = "lock"
    /\ ~ locked
    /\ locked' = TRUE
    /\ mpc' = "sort"
    /\ UNCHANGED <<servers, commands, outcome, li, ji, wpc, wres, results,
                   arrival, log>>
    /\ UNCHANGED svars
    /\ UNCHANGED pvars

\* results.sort_by(|a, b| a.server.cmp(&b.server));
MainSort ==
    /\ mpc = "sort"
    /\ results' = sort_by(results)
    /\ mpc' = "report"
    /\ UNCHANGED <<servers, commands, outcome, li, ji, wpc, wres, locked,
                   arrival, log>>
    /\ UNCHANGED svars
    /\ UNCHANGED pvars

\* the loop over results.iter() writing each line; the guard is dropped at
\* the end of the block.
MainReport ==
    /\ mpc = "report"
    /\ log' = [ i \in 1..Len(results) |-> ReportLine(results[i]) ]
    /\ locked' = FALSE
    /\ mpc' = "done"
    /\ UNCHANGED <<servers, commands, outcome, li, ji, wpc, wres, results,
                   arrival>>
    /\ UNCHANGED svars
    /\ UNCHANGED pvars

\* let result = run_ssh_command(&server_clone, &user_clone, ..);
WorkerRun(k) ==
    /\ wpc[k] = "exec"
    /\ LET r == run_ssh_command(k, Task(k), outcome[k])
       IN  IF r.panicked
           THEN /\ wpc' = [ wpc EXCEPT ![k] = "panicked" ]
                /\ wres' = wres
           ELSE /\ wpc' = [ wpc EXCEPT ![k] = "lock" ]
                /\ wres' = [ wres EXCEPT ![k] = r.value ]
    /\ UNCHANGED <<servers, commands, outcome, mpc, li, ji, locked, results,
                   arrival, log>>
    /\ UNCHANGED svars
    /\ UNCHANGED pvars

\* The lock is taken whether or not another thread holds it.
WorkerLockNoGuard(k) ==
    /\ wpc[k] = "lock"
    /\ locked' = TRUE
    /\ wpc' = [ wpc EXCEPT ![k] = "push" ]
    /\ UNCHANGED <<servers, commands, outcome, mpc, li, ji, wres, results,
                   arrival, log>>
    /\ UNCHANGED svars
    /\ UNCHANGED pvars

\* let mut results = results_clone.lock().unwrap();
WorkerLock(k) ==
    /\ wpc[k] = "lock"
    /\ ~ locked
    /\ locked' = TRUE
    /\ wpc' = [ wpc EXCEPT ![k] = "push" ]
    /\ UNCHANGED <<servers, commands, outcome, mpc, li, ji, wres, results,
                   arrival, log>>
    /\ UNCHANGED svars
    /\ UNCHANGED pvars

\* A result for a server that already has one is dropped instead of pushed.
WorkerPushDedup(k) ==
    /\ wpc[k] = "push"
    /\ results' = IF \E i \in 1..Len(results) :
                        results[i].server = wres[k].server
                  THEN results
                  ELSE Append(results, wres[k])
    /\ arrival' = Append(arrival, wres[k])
    /\ locked' = FALSE
    /\ wpc' = [ wpc EXCEPT ![k] = "done" ]
    /\ UNCHANGED <<servers, commands, outcome, mpc, li, ji, wres, log>>
    /\ UNCHANGED svars
    /\ UNCHANGED pvars

\* The result is inserted at the front of the vector instead of its end.
WorkerPushFront(k) ==
    /\ wpc[k] = "push"
    /\ results' = << wres[k] >> \o results
    /\ arrival' = Append(arrival, wres[k])
    /\ locked' = FALSE
    /\ wpc' = [ wpc EXCEPT ![k] = "done" ]
    /\ UNCHANGED <<servers, commands, outcome, mpc, li, ji, wres, log>>
    /\ UNCHANGED svars
    /\ UNCHANGED pvars

\* The guard is leaked: the closure ends without releasing the mutex.
WorkerPushKeepsLock(k) ==
    /\ wpc[k] = "push"
    /\ results' = Append(results, wres[k])
    /\ arrival' = Append(arrival, wres[k])
    /\ locked' = locked
    /\ wpc' = [ wpc EXCEPT ![k] = "done" ]
    /\ UNCHANGED <<servers, commands, outcome, mpc, li, ji, wres, log>>
    /\ UNCHANGED svars
    /\ UNCHANGED pvars

\* results.push(result); and the guard is dropped as the closure ends
WorkerPush(k) ==
    /\ wpc[k] = "push"
    /\ results' = Append(results, wres[k])
    /\ arrival' = Append(arrival, wres[k])
    /\ locked' = FALSE
    /\ wpc' = [ wpc EXCEPT ![k] = "done" ]
    /\ UNCHANGED <<servers, commands, outcome, mpc, li, ji, wres, log>>
    /\ UNCHANGED svars
    /\ UNCHANGED pvars

Next ==
    \/ MainSpawn
    \/ MainJoin
    \/ MainLock
    \/ MainSort
    \/ MainReport
    \/ \E k \in 1..N : WorkerRun(k)
    \/ \E k \in 1..N : WorkerLock(k)
    \/ \E k \in 1..N : WorkerPush(k)

Spec == Init /\ [][Next]_vars

\* The dispatcher under fair scheduling: a step that can be taken is
\* eventually taken.  This is implied by every thread that can run eventually
\* running and every subprocess eventually exiting (WorkerRun is the step in
\* which Command::output() returns).
\* No guard of the dispatcher reads a server name or a command: the runs are
\* drawn with every number of servers and commands and every outcome, the
\* servers all named "a" and the commands all "x".
InitLive ==
    /\ Init
    /\ \A i \in 1..Len(servers) : servers[i] = <<97>>
    /\ \A i \in 1..Len(commands) : commands[i] = "x"

SpecLive == InitLive /\ [][Next]_vars /\ WF_vars(Next)

\* ---------------------------------------- the dispatcher with a failing worker
\* The call of the executor unwinds with a panic instead of returning (the
\* streaming revision of run_ssh_command does so on every failure it meets,
\* by .expect()): the worker's closure ends there, before lock() and push().
WorkerPanic(k) ==
    /\ wpc[k] = "exec"
    /\ wpc' = [ wpc EXCEPT ![k] = "panicked" ]
    /\ UNCHANGED <<servers, commands, outcome, mpc, li, ji, wres, locked,
                   results, arrival, log>>
    /\ UNCHANGED svars
    /\ UNCHANGED pvars

NextFault ==
    \/ Next
    \/ \E k \in 1..N : WorkerPanic(k)

SpecFault == Init /\ [][NextFault]_vars

\* =================================================== streaming executor
\* src/src/ssh/mod.rs, run_ssh_command(server, user, command, ssh_options, tx).
\* What the environment does to one call: whether ssh can be spawned, what
\* each pipe delivers to BufRead::lines() (a line, or an io::Error such as
\* invalid UTF-8) before end of file, and what child.wait() returns.
ReadErr == "<io error>"
Lines == { "hello", "boom" }
WaitKinds == { "exit0", "exit1", "wait_err" }

\* the ServerResult sent on tx; `from` is a ghost field naming the sender
StreamResult(server, output, success, from) ==
    [ server |-> server, output |-> output, error |-> None,
      success |-> success, from |-> from ]

InitStream ==
    /\ servers = << >>
    /\ commands = << >>
    /\ outcome = << >>
    /\ mpc = "off"
    /\ li = 0
    /\ ji = 0
    /\ wpc = << >>
    /\ wres = << >>
    /\ locked = FALSE
    /\ results = << >>
    /\ arrival = << >>
    /\ log = << >>
    /\ stask \in [ server : ServerNames, command : CommandNames ]
    /\ senv \in [ spawn : BOOLEAN,
                  out : SeqsUpTo(Lines \cup { ReadErr }, MaxLines),
                  err : SeqsUpTo(Lines \cup { ReadErr }, MaxLines),
                  wait : WaitKinds ]
    /\ epc = "start"
    /\ rpc = [ out |-> "idle", err |-> "idle" ]
    /\ rpos = [ out |-> 0, err |-> 0 ]
    /\ chan = << >>
    /\ rxAlive = TRUE
    /\ ptask = [ server |-> << >>, command |-> "" ]
    /\ psent = 0

\* Command::new("ssh")...spawn().expect("Failed to start ssh command");
\* child.stdout.take().expect(..), child.stderr.take().expect(..) (both are
\* Some: the pipes were requested with Stdio::piped() and are taken once);
\* then the two reader threads are spawned.
ExecSpawn ==
    /\ epc = "start"
    /\ IF senv.spawn
       THEN /\ epc' = "join_out"
            /\ rpc' = [ out |-> "run", err |-> "run" ]
       ELSE /\ epc' = "panicked"
            /\ rpc' = rpc
    /\ UNCHANGED <<stask, senv, rpos, chan, rxAlive>>
    /\ UNCHANGED dvars
    /\ UNCHANGED pvars

\* The reader's result overtakes everything already queued on the channel.
ReaderStepFront(w) ==
    /\ rpc[w] = "run"
    /\ IF rpos[w] = Len(senv[w])
       THEN /\ rpc' = [ rpc EXCEPT ![w] = "done" ]
            /\ UNCHANGED <<rpos, chan>>
       ELSE LET line == senv[w][rpos[w] + 1]
            IN  IF line = ReadErr \/ ~ rxAlive
                THEN /\ rpc' = [ rpc EXCEPT ![w] = "panicked" ]
                     /\ UNCHANGED <<rpos, chan>>
                ELSE /\ chan' = << StreamResult(stask.server, line, TRUE, w) >>
                                    \o chan
                     /\ rpos' = [ rpos EXCEPT ![w] = rpos[w] + 1 ]
                     /\ rpc' = rpc
    /\ UNCHANGED <<stask, senv, epc, rxAlive>>
    /\ UNCHANGED dvars
    /\ UNCHANGED pvars

\* One iteration of `for line in stdout.lines()` (w = "out") or of
\* `for line in stderr.lines()` (w = "err"): end of file ends the thread;
\* line.expect(..) panics on a read error; tx.send(..).expect(..) panics
\* when the receiver is gone.
ReaderStep(w) ==
    /\ rpc[w] = "run"
    /\ IF rpos[w] = Len(senv[w])
       THEN /\ rpc' = [ rpc EXCEPT ![w] = "done" ]
            /\ UNCHANGED <<rpos, chan>>
       ELSE LET line == senv[w][rpos[w] + 1]
            IN  IF line = ReadErr \/ ~ rxAlive
                THEN /\ rpc' = [ rpc EXCEPT ![w] = "panicked" ]
                     /\ UNCHANGED <<rpos, chan>>
                ELSE /\ chan' = Append(chan,
                            StreamResult(stask.server, line, TRUE, w))
                     /\ rpos' = [ rpos EXCEPT ![w] = rpos[w] + 1 ]
                     /\ rpc' = rpc
    /\ UNCHANGED <<stask, senv, epc, rxAlive>>
    /\ UNCHANGED dvars
    /\ UNCHANGED pvars

\* stdout_thread.join().expect("Failed to join stdout thread");
ExecJoinOut ==
    /\ epc = "join_out"
    /\ rpc.out \in { "done", "panicked" }
    /\ epc' = IF rpc.out = "panicked" THEN "panicked" ELSE "join_err"
    /\ UNCHANGED <<stask, senv, rpc, rpos, chan, rxAlive>>
    /\ UNCHANGED dvars
    /\ UNCHANGED pvars

\* The join of the stderr reader is assumed to return while it still runs.
ExecJoinErrNoWait ==
    /\ epc = "join_err"
    /\ epc' = "wait"
    /\ UNCHANGED <<stask, senv, rpc, rpos, chan, rxAlive>>
    /\ UNCHANGED dvars
    /\ UNCHANGED pvars

\* stderr_thread.join().expect("Failed to join stderr thread");
ExecJoinErr ==
    /\ epc = "join_err"
    /\ rpc.err \in { "done", "panicked" }
    /\ epc' = IF rpc.err = "panicked" THEN "panicked" ELSE "wait"
    /\ UNCHANGED <<stask, senv, rpc, rpos, chan, rxAlive>>
    /\ UNCHANGED dvars
    /\ UNCHANGED pvars

\* let success = child.wait().expect("Failed to wait on child").success();
ExecWait ==
    /\ epc = "wait"
    /\ epc' = IF senv.wait = "wait_err" THEN "panicked" ELSE "send"
    /\ UNCHANGED <<stask, senv, rpc, rpos, chan, rxAlive>>
    /\ UNCHANGED dvars
    /\ UNCHANGED pvars

\* tx.send(ServerResult { server, output: String::new(), error: None,
\*                        duration, success }).expect("Failed to send final result");
ExecSendFinal ==
    /\ epc = "send"
    /\ IF rxAlive
       THEN /\ chan' = Append(chan,
                  StreamResult(stask.server, "", senv.wait = "exit0", "final"))
            /\ epc' = "returned"
       ELSE /\ chan' = chan
            /\ epc' = "panicked"
    /\ UNCHANGED <<stask, senv, rpc, rpos, rxAlive>>
    /\ UNCHANGED dvars
    /\ UNCHANGED pvars

\* the consumer drops the Receiver (environment)
DropReceiver ==
    /\ epc # "off"
    /\ rxAlive
    /\ rxAlive' = FALSE
    /\ UNCHANGED <<stask, senv, epc, rpc, rpos, chan>>
    /\ UNCHANGED dvars
    /\ UNCHANGED pvars

NextStream ==
    \/ ExecSpawn
    \/ ReaderStep("out")
    \/ ReaderStep("err")
    \/ ExecJoinOut
    \/ ExecJoinErr
    \/ ExecWait
    \/ ExecSendFinal
    \/ DropReceiver

SpecStream == InitStream /\ [][NextStream]_vars

\* ------------------------------------- two calls sharing one channel
\* A second call of run_ssh_command runs concurrently for another task, its
\* tx a clone of the same Sender.  Of that call only the results its reader
\* threads send are modelled; both subprocesses are spawned and every read
\* succeeds (the failures of one call are the subject of SpecStream).
StreamTasks == [ server : ServerNames, command : CommandNames ]

InitPeer ==
    /\ servers = << >>
    /\ commands = << >>
    /\ outcome = << >>
    /\ mpc = "off"
    /\ li = 0
    /\ ji = 0
    /\ wpc = << >>
    /\ wres = << >>
    /\ locked = FALSE
    /\ results = << >>
    /\ arrival = << >>
    /\ log = << >>
    /\ stask \in StreamTasks
    /\ ptask \in StreamTasks \ { stask }
    /\ psent = 0
    /\ senv \in [ spawn : { TRUE },
                  out : SeqsUpTo(Lines, MaxLines),
                  err : SeqsUpTo(Lines, MaxLines),
                  wait : { "exit0", "exit1" } ]
    /\ epc = "start"
    /\ rpc = [ out |-> "idle", err |-> "idle" ]
    /\ rpos = [ out |-> 0, err |-> 0 ]
    /\ chan = << >>
    /\ rxAlive = TRUE

\* tx_stdout.send(ServerResult { server, output: line, error: None,
\*                               duration, success: true }) in the second call
PeerSend ==
    /\ epc # "off"
    /\ psent < MaxLines
    /\ rxAlive
    /\ \E line \in Lines :
          chan' = Append(chan, StreamResult(ptask.server, line, TRUE, "peer"))
    /\ psent' = psent + 1
    /\ UNCHANGED <<stask, senv, epc, rpc, rpos, rxAlive, ptask>>
    /\ UNCHANGED dvars

NextPeer ==
    \/ ExecSpawn
    \/ ReaderStep("out")
    \/ ReaderStep("err")
    \/ ExecJoinOut
    \/ ExecJoinErr
    \/ ExecWait
    \/ ExecSendFinal
    \/ PeerSend

SpecPeer == InitPeer /\ [][NextPeer]_vars

\* The same two calls for one fixed pair of tasks whose subprocess exits
\* with status 0: the order in which results reach the channel depends on
\* neither the names nor the exit status.  Consecutive lines of a pipe
\* differ, so that the order of any two neighbouring sends can be seen on
\* the channel.
InitOrder ==
    /\ InitPeer
    /\ stask = [ server |-> <<97>>, command |-> "x" ]
    /\ ptask = [ server |-> <<98>>, command |-> "y" ]
    /\ senv.wait = "exit0"
    /\ \A w \in { "out", "err" } :
          \A i \in 1..(Len(senv[w]) - 1) : senv[w][i] # senv[w][i + 1]

SpecOrder == InitOrder /\ [][NextPeer]_vars

\* ------------------------------------------------ aggregates of the report
\* No revision under src/ computes them; they follow the specification: a
\* result succeeded iff the subprocess was launched and exited with status
\* 0 (for the ServerResult of main.rs: iff its error is None), and the two
\* flags are folds over the successes of the report.
Success(r) == r.error = None

RECURSIVE FoldAny(_, _)
FoldAny(s, n) == IF n = 0 THEN FALSE ELSE FoldAny(s, n - 1) \/ Success(s[n])

RECURSIVE FoldAll(_, _)
FoldAll(s, n) == IF n = 0 THEN TRUE ELSE FoldAll(s, n - 1) /\ Success(s[n])

\* the flag is computed from the last result only
allSucceeded_last(s) == IF s = << >> THEN TRUE ELSE Success(s[Len(s)])

allSucceeded(s) == FoldAll(s, Len(s))
anySucceeded(s) == FoldAny(s, Len(s))

\* ================================================================ claims
\* What the program's ServerResult holds (the ghost id removed).
Strip(r) == [ server |-> r.server, output |-> r.output, error |-> r.error ]
StripAll(s) == [ i \in 1..Len(s) |-> Strip(s[i]) ]

\* the results of all tasks in launch order
LaunchOrder == [ k \in 1..N |-> run_ssh_command(k, Task(k), outcome[k]).value ]

Reported == mpc \in { "report", "done" }

\* C1: once the report is written the result vector holds exactly N*M
\* results, one for each task index (so one per (server, command) pair, and
\* a pair listed twice has two), each carrying its task's server, and one
\* line was written for each.
C1_OnePerPair ==
    mpc = "done" =>
        /\ Len(results) = Len(servers) * Len(commands)
        /\ Len(log) = Len(servers) * Len(commands)
        /\ \A k \in 1..N :
              Cardinality({ i \in 1..Len(results) : results[i].id = k }) = 1
        /\ \A i \in 1..Len(results) :
              results[i].server = Task(results[i].id).server

\* two servers with the same name and two equal commands: every pair occurs
\* four times
C1_Witness ==
    /\ mpc = "done"
    /\ Len(servers) = 2 /\ servers[1] = servers[2]
    /\ Len(commands) = 2 /\ commands[1] = commands[2]

\* C2: in the sorted vector, and in the lines written from it, the server at
\* position i is never greater than the server at a later position j.
C2_SortedByServer ==
    Reported =>
        /\ \A i, j \in 1..Len(results) :
              i < j => ~ StrLess(results[j].server, results[i].server)
        /\ \A i, j \in 1..Len(log) :
              i < j => ~ StrLess(log[j].server, log[i].server)

\* server "b" is configured before "a" and its worker pushed first
C2_Witness ==
    /\ mpc = "done"
    /\ servers = << <<98>>, <<97>> >>
    /\ Len(commands) = 1
    /\ arrival[1].server = <<98>>
    /\ log[1].server = <<97>>

\* C3: for fixed servers, commands and outcomes the written report is the same
\* sequence whatever the order in which the workers pushed: it equals the
\* sorted launch-order results, which is the report of the run in which the
\* workers push in launch order.
C3_DeterministicReport ==
    mpc = "done" => StripAll(results) = StripAll(sort_by(LaunchOrder))

\* C4: two results with the same server are in the sorted vector in the
\* order in which they were pushed.
PushedAt(id) == CHOOSE i \in 1..Len(arrival) : arrival[i].id = id

C4_StableSort ==
    Reported =>
        \A i, j \in 1..Len(results) :
            (i < j /\ results[i].server = results[j].server)
                => PushedAt(results[i].id) < PushedAt(results[j].id)

\* a server with two commands whose results were pushed after a result of a
\* greater server, the second command's result first
C4_Witness ==
    /\ mpc = "done"
    /\ \E i, j \in 1..Len(results) :
          /\ i < j
          /\ results[i].server = results[j].server
          /\ results[i].id > results[j].id
    /\ \E i \in 2..Len(arrival) :
          StrLess(arrival[i].server, arrival[1].server)

\* C5: main takes the lock, sorts and reports only when every worker thread
\* has ended and every result has been pushed; and from then on nothing is
\* pushed.
C5_Barrier ==
    /\ [](mpc \in { "lock", "sort", "report", "done" } =>
            /\ \A k \in 1..N : wpc[k] = "done"
            /\ Len(arrival) = N)
    /\ [][(mpc \in { "sort", "report", "done" }) => (arrival' = arrival)]_vars

C5_Witness ==
    /\ mpc = "sort"
    /\ N >= 3
    /\ arrival[1].id = N

\* C6: at most one thread is inside the mutex (a worker between lock() and
\* the end of its closure, or main between lock() and the end of its block),
\* the mutex is held whenever one is, and the step a worker takes while
\* inside is one push of its own result followed by its release.
InMutex(k) == wpc[k] = "push"
MainInMutex == mpc \in { "sort", "report" }
Holders == Cardinality({ k \in 1..N : InMutex(k) }) + (IF MainInMutex THEN 1 ELSE 0)

C6_ExclusiveAccess ==
    /\ [](Holders <= 1 /\ (Holders = 1 <=> locked))
    /\ [][\A k \in 1..N :
            InMutex(k) =>
                \/ (wpc'[k] = "push" /\ results' = results)
                \/ (wpc'[k] = "done" /\ results' = Append(results, wres[k])
                      /\ ~ locked')]_vars

\* one worker is inside the mutex while another waits for it
C6_Witness ==
    \E k, m \in 1..N : k # m /\ wpc[k] = "push" /\ wpc[m] = "lock"

\* C10: every task's result in the report is the result of that task alone:
\* it is determined by the task and its own outcome, whatever the outcomes
\* of the other tasks (one of which fails); no failure stops main, and the
\* report has a line for every task.
C10_FailureContained ==
    /\ mpc # "panicked"
    /\ \A k \in 1..N : wpc[k] # "panicked"
    /\ mpc = "done" =>
          /\ Len(log) = N
          /\ \A k \in 1..N : \E i \in 1..Len(results) :
                /\ results[i].id = k
                /\ Strip(results[i]) = Strip(LaunchOrder[k])

\* a run of several tasks in which one fails and the others exit 0
C10_Witness ==
    /\ mpc = "done"
    /\ N >= 3
    /\ \E f \in 1..N :
          /\ Failing(outcome[f])
          /\ \A k \in 1..N : k # f => ~ Failing(outcome[k])
          /\ \A i \in 1..Len(results) :
                results[i].id # f => results[i].error = None

\* ------------------------------------------ claims on the streaming executor
ExecEnded == epc \in { "returned", "panicked" }
Terminal(i) == chan[i].from = "final"

\* C7: no thread of the executor panics, and a call that has ended has sent
\* a terminal result.
C7_NeverPanics ==
    /\ epc # "panicked"
    /\ rpc.out # "panicked"
    /\ rpc.err # "panicked"
    /\ ExecEnded => \E i \in 1..Len(chan) : Terminal(i)

\* C8: when ssh could not be spawned, the call that has ended has produced a
\* result with success = false, an empty output and the spawn failure
\* message as its error.
C8_SpawnFailureResult ==
    (ExecEnded /\ ~ senv.spawn) =>
        \E i \in 1..Len(chan) :
            /\ chan[i].server = stask.server
            /\ chan[i].success = FALSE
            /\ chan[i].output = ""
            /\ chan[i].error = Some(SpawnMessage)

\* C9: the terminal result of a spawned subprocess has success = true
\* exactly when the exit status is 0, an error that is Some(..) when success
\* is false, and the error None when success is true.
C9_TerminalResult ==
    \A i \in 1..Len(chan) :
        Terminal(i) =>
            /\ chan[i].success = (senv.wait = "exit0")
            /\ (~ chan[i].success) => chan[i].error # None
            /\ chan[i].success => chan[i].error = None

\* ------------------------------------- claims on the dispatcher, continued
\* C11: a worker whose executor panicked does not stop main: main does not
\* panic, and a report that is written holds a failed result (an error is
\* set) for every task, the panicked worker's included.
C11_WorkerPanicContained ==
    /\ mpc # "panicked"
    /\ mpc = "done" =>
          \A k \in 1..N :
              wpc[k] = "panicked" =>
                  \E i \in 1..Len(results) :
                      results[i].id = k /\ results[i].error # None

\* ------------------------------ claims on the streaming executor, continued
SentBy(w) == { i \in 1..Len(chan) : chan[i].from = w }

\* C12: the exit status is read and the terminal result is sent only when
\* both readers have ended, having sent every line of their pipe; so the
\* terminal result is the last result on the channel.
C12_TerminalAfterProvisional ==
    /\ epc \in { "wait", "send", "returned" } =>
          /\ rpc.out = "done" /\ rpc.err = "done"
          /\ Cardinality(SentBy("out")) = Len(senv.out)
          /\ Cardinality(SentBy("err")) = Len(senv.err)
    /\ \A i \in 1..Len(chan) :
          Terminal(i) => (i = Len(chan) /\ epc = "returned")

\* both pipes delivered lines, a stderr line was sent last of them, and the
\* terminal result followed
C12_Witness ==
    /\ epc = "returned"
    /\ Len(senv.out) >= 1 /\ Len(senv.err) >= 1
    /\ Len(chan) = Len(senv.out) + Len(senv.err) + 1
    /\ chan[Len(chan) - 1].from = "err"
    /\ chan[1].from = "err"

\* what a consumer of the channel sees of a result (duration apart)
Visible(m) == [ server |-> m.server, output |-> m.output, error |-> m.error,
                success |-> m.success ]

\* C13: two results on the channel that were sent by different tasks differ
\* in what the consumer sees, so that each can be attributed to its task.
C13_ResultIdentifiesTask ==
    \A i, j \in 1..Len(chan) :
        ((chan[i].from = "peer") # (chan[j].from = "peer"))
            => Visible(chan[i]) # Visible(chan[j])

ReadFailed(w) ==
    /\ rpc[w] = "panicked"
    /\ rpos[w] < Len(senv[w])
    /\ senv[w][rpos[w] + 1] = ReadErr

\* C15: when a reader met a read error, the call that has ended did not
\* panic and has sent a terminal result with success = false and an error
\* message.
C15_ReadFailureReported ==
    (ExecEnded /\ (ReadFailed("out") \/ ReadFailed("err"))) =>
        /\ epc = "returned"
        /\ \E i \in 1..Len(chan) :
              /\ Terminal(i)
              /\ chan[i].success = FALSE
              /\ chan[i].error # None

\* C16: every launched task carries the user and the ssh options its server
\* has in the maps, and the empty string for a map that has no entry for the
\* server; no lookup stops a thread, and the report has a result for every
\* task, those of servers without entries included.
C16_MissingEntryIsEmpty ==
    /\ \A k \in 1..N :
          wpc[k] # "idle" =>
              /\ Task(k).server = servers[((k - 1) \div Len(commands)) + 1]
              /\ IF Task(k).server \in DOMAIN users
                 THEN Task(k).user = users[Task(k).server]
                 ELSE Task(k).user = ""
              /\ IF Task(k).server \in DOMAIN ssh_options
                 THEN Task(k).ssh_options = ssh_options[Task(k).server]
                 ELSE Task(k).ssh_options = ""
    /\ mpc # "panicked"
    /\ \A k \in 1..N : wpc[k] # "panicked"
    /\ mpc = "done" =>
          \A k \in 1..N : \E i \in 1..Len(results) : results[i].id = k

\* the report of a run with a server that is in neither map and a server
\* that is in both
C16_Witness ==
    /\ mpc = "done"
    /\ servers = << <<97, 98>>, <<97>> >>
    /\ Len(commands) = 2
    /\ Task(1).user = "" /\ Task(1).ssh_options = ""
    /\ Task(3).user = "root" /\ Task(3).ssh_options = "-p 22"
    /\ \E i \in 1..Len(results) : results[i].id = 2

\* C17: the workers launched are exactly the first li tasks, one thread each;
\* while main is in the launch loop its next spawn is enabled whatever the
\* workers launched before are doing; and main joins (or is past joining)
\* only when all N threads have been launched.
C17_UnboundedLaunch ==
    /\ \A k \in 1..N : (k <= li) <=> (wpc[k] # "idle")
    /\ mpc = "launch" => ENABLED MainSpawn
    /\ (ji > 0 \/ mpc \in { "join", "lock", "sort", "report", "done" })
          => li = N
    /\ ji > 0 => mpc # "launch"

\* all workers of a 2 x 2 run are inside run_ssh_command at the same time,
\* none joined yet
C17_Witness ==
    /\ Len(servers) = 2 /\ Len(commands) = 2
    /\ \A k \in 1..N : wpc[k] = "exec"
    /\ ji = 0

\* C18: the vector holds one result of each worker that has ended and none
\* of any other; and every step but the sort leaves the elements already in
\* the vector in place, adding at most one at its end.
C18_AppendOnly ==
    /\ [](\A k \in 1..N :
            Cardinality({ i \in 1..Len(results) : results[i].id = k })
                = IF wpc[k] = "done" THEN 1 ELSE 0)
    /\ [][(mpc # "sort") =>
            /\ Len(results') >= Len(results)
            /\ Len(results') <= Len(results) + 1
            /\ \A i \in 1..Len(results) : results'[i] = results[i]]_vars

\* before the barrier a worker is about to push onto a vector that already
\* holds two results
C18_Witness ==
    /\ mpc = "join"
    /\ Len(results) >= 2
    /\ \E k \in 1..N : wpc[k] = "push"

\* the worker's call of run_ssh_command has returned
HasResult(k) == wpc[k] \in { "lock", "push", "done" }
ExitedNonZero(o) == ~ SpawnFailed(o) /\ ~ ExitSuccess(o)

\* C19: the result of a task carries the task's server; when the subprocess
\* exited non-zero its output is empty and its error is the stderr contents;
\* when it exited zero its output is the stdout contents and its error None.
C19_ResultByExitStatus ==
    \A k \in 1..N :
        HasResult(k) =>
            /\ wres[k].server = Task(k).server
            /\ ExitedNonZero(outcome[k]) =>
                  /\ wres[k].output = ""
                  /\ wres[k].error = Some(Stderr(Task(k), outcome[k]))
            /\ ExitSuccess(outcome[k]) =>
                  /\ wres[k].output = Stdout(Task(k), outcome[k])
                  /\ wres[k].error = None

\* C20: under fair scheduling every run reaches the state in which every
\* worker has pushed and ended, the mutex is free and main has written the
\* report; and in no state short of that are all threads blocked.
C20_Terminates ==
    /\ <>(/\ mpc = "done"
          /\ \A k \in 1..N : wpc[k] = "done"
          /\ ~ locked
          /\ Len(log) = N)
    /\ [](mpc = "done" \/ ENABLED Next)

\* main waits in join for a worker that waits for the mutex another worker
\* holds
C20_Witness ==
    /\ mpc = "join"
    /\ wpc[ji + 1] = "lock"
    /\ \E k \in 1..N : wpc[k] = "push"
    /\ locked

\* the lines sent by w, in the order they sit on the channel
RECURSIVE SentLines(_, _)
SentLines(c, w) ==
    IF c = << >> THEN << >>
    ELSE IF Head(c).from = w
         THEN << Head(c).output >> \o SentLines(Tail(c), w)
         ELSE SentLines(Tail(c), w)

\* C21: the provisional results of the task's stdout sit on the channel in
\* the order its lines were read, and so do those of its stderr; between the
\* two readers, and between them and another task's lines, no order is
\* imposed: while a reader runs its next step can be taken whatever the
\* other reader and the other task have done, and the other task can send
\* whatever the readers have done.
C21_PerStreamOrder ==
    /\ SentLines(chan, "out") = SubSeq(senv.out, 1, rpos.out)
    /\ SentLines(chan, "err") = SubSeq(senv.err, 1, rpos.err)
    /\ rpc.out = "run" => ENABLED ReaderStep("out")
    /\ rpc.err = "run" => ENABLED ReaderStep("err")
    /\ (epc # "off" /\ psent < MaxLines) => ENABLED PeerSend

\* two different stdout lines are on the channel in the order read, with a
\* stderr line between them and a line of the other task ahead of them all
C21_Witness ==
    /\ Len(chan) >= 4
    /\ senv.out = << "hello", "boom" >>
    /\ chan[1].from = "peer"
    /\ chan[2].from = "out" /\ chan[2].output = "hello"
    /\ chan[3].from = "err"
    /\ chan[4].from = "out" /\ chan[4].output = "boom"

====
